---------------------------- MODULE Spec2Model ----------------------------
(***************************************************************************)
(* Channel playlist and rotation engine of apoweroftrance-radio:           *)
(* src/radio/util.py (shared store, pending-removal record, rotation       *)
(* selector, delete_track) and the handlers of src/radio/views.py.         *)
(*                                                                         *)
(* Python values are modelled as follows.                                  *)
(*   None / a missing redis key / a missing catalog row : <<>>   (None)    *)
(*   any other value x held in a nullable place         : <<x>>  (Some(x)) *)
(*   a list                                             : a sequence       *)
(*   a dict                                             : a record         *)
(* A queue entry keeps only its "id": location, artist and title are       *)
(* copied from the track and never read by the code modelled here.         *)
(* json.dumps followed by json.loads maps ints, None, lists and dicts with *)
(* string keys to themselves, so the store holds the document itself; the  *)
(* one input on which json.loads differs, None, is modelled (JsonLoads).   *)
(***************************************************************************)
EXTENDS Integers, Sequences, FiniteSets, TLC

\* ------------------------------------------------------------- bounds
\* Track ids of the catalog are 1..MaxTrack.
MaxTrack == 2
\* Playlists longer than this are not built (guards of the appending handlers).
MaxLen == 2
\* get_random_track is asked for 0..MaxSamples tracks.
MaxSamples == 2
\* The queue requests taken alone (QueueSpec) work on playlists of at most
\* this many entries.
MaxQueue == 3
\* Concurrent requests do not make the pending-removal list longer than this.
MaxPending == 2

\* ---------------------------------------------------------- constants
\* timedelta(hours=3) and timedelta(minutes=10), in minutes.
delta_3hour == 180
delta_10minute == 10
NUM_SAMPLES == 21

\* models.SERVICE_CHANNEL: the channel names the handlers accept.
SERVICE_CHANNEL == {"trance", "house"}

TrackIds == 1..MaxTrack

None == <<>>
Some(x) == <<x>>
Val(o) == o[1]

VARIABLES
  catalog,   \* Track table: track id -> None | Some(row)
  store,     \* redis: channel key -> None | Some(document)
  pending,   \* redis key 'pending_remove': None | Some([list |-> None | Some(seq)])
  clock,     \* datetime.now(), in minutes
  txn,       \* rows as they were when the open transaction began (None: no transaction)
  last,      \* the last request: what it was, what it returned
  procs,     \* requests running side by side: each one's position and locals
  likes      \* Like table of the requesting user: track id -> None | Some(like value)

vars == <<catalog, store, pending, clock, txn, last, procs, likes>>

\* ------------------------------------------------------ python helpers
\* Truth value of a nullable list or dict: None and the empty list are false.
PyTruthy(o) == o # None /\ Val(o) # <<>>

\* list.index(x): the first position holding x (1-based here).
PyIndex(list, x) == CHOOSE i \in 1..Len(list) : list[i] = x /\ \A j \in 1..(i-1) : list[j] # x

\* list.pop(i) as the remaining list.
PyPop(list, i) == SubSeq(list, 1, i-1) \o SubSeq(list, i+1, Len(list))

\* Mutant: append for insert.
PyInsertAppend(list, i, x) == Append(list, x)

\* list.insert(i, x) for a 0-based python index i (negative counts from the
\* end, out of range clamps).
PyInsert(list, i, x) ==
  LET n == Len(list)
      k == IF i < 0 THEN (IF n + i < 0 THEN 0 ELSE n + i) ELSE (IF i > n THEN n ELSE i)
  IN  SubSeq(list, 1, k) \o <<x>> \o SubSeq(list, k+1, n)

\* Mutant: an index past the end takes the last entry instead of raising.
PyPopAtClamped(list, i) ==
  LET n == Len(list)
      k == IF i < 0 THEN n + i + 1 ELSE (IF i + 1 > n THEN n ELSE i + 1)
  IN  IF k < 1 \/ k > n THEN [err |-> TRUE, item |-> <<>>, list |-> list]
      ELSE [err |-> FALSE, item |-> <<list[k]>>, list |-> PyPop(list, k)]

\* list.pop(i) for a 0-based python index i (negative counts from the end):
\* IndexError (err) when i is outside -len..len-1.
PyPopAt(list, i) ==
  LET n == Len(list)
      k == IF i < 0 THEN n + i + 1 ELSE i + 1
  IN  IF k < 1 \/ k > n THEN [err |-> TRUE, item |-> <<>>, list |-> list]
      ELSE [err |-> FALSE, item |-> <<list[k]>>, list |-> PyPop(list, k)]

Range(s) == {s[i] : i \in 1..Len(s)}

\* ------------------------------------------------- shared store (redis)
DefaultData == [now_playing |-> None, playlist |-> None]

\* json.loads(raw): TypeError on None (caught by the callers' except Exception).
JsonLoads(raw) == IF raw = None THEN [err |-> TRUE, value |-> None]
                  ELSE [err |-> FALSE, value |-> raw]

\* get_redis_data(channel): writes the default document when the key is
\* missing, then parses the value it read: None when that raised.
get_redis_data(st, channel) ==
  LET raw_json == st[channel]
      st1 == IF raw_json = None THEN [st EXCEPT ![channel] = Some(DefaultData)] ELSE st
      parsed == JsonLoads(raw_json)
  IN  [store |-> st1, ret |-> IF parsed.err THEN None ELSE parsed.value]

\* set_redis_data(channel, "playlist", value): TypeError (err) when
\* get_redis_data returned None.
set_playlist(st, channel, value) ==
  LET g == get_redis_data(st, channel)
  IN  IF g.ret = None THEN [store |-> g.store, err |-> TRUE]
      ELSE [store |-> [g.store EXCEPT ![channel] = Some([Val(g.ret) EXCEPT !.playlist = value])],
            err |-> FALSE]

\* ------------------------------------------------ pending-removal record
DefaultPending == [list |-> None]

get_pending_remove(pend) ==
  LET parsed == JsonLoads(pend)
  IN  [pending |-> IF pend = None THEN Some(DefaultPending) ELSE pend,
       ret |-> IF parsed.err THEN None ELSE parsed.value]

\* set_pending_remove(remove_list): TypeError (err) when the record was missing.
set_pending_remove(pend, remove_list) ==
  LET g == get_pending_remove(pend)
  IN  IF g.ret = None THEN [pending |-> g.pending, err |-> TRUE]
      ELSE [pending |-> Some([Val(g.ret) EXCEPT !.list = remove_list]), err |-> FALSE]

get_is_pending_remove(pend, track_id) ==
  LET g == get_pending_remove(pend)
  IN  [pending |-> g.pending,
       ret |-> IF g.ret = None THEN FALSE
               ELSE IF Val(g.ret).list = None THEN FALSE
               ELSE track_id \in Range(Val(Val(g.ret).list))]

\* The ids held in the pending-removal list (none for a missing record or a null list).
PendingList(pend) ==
  IF pend = None THEN <<>> ELSE IF Val(pend).list = None THEN <<>> ELSE Val(Val(pend).list)

PendingIds(pend) == Range(PendingList(pend))

\* ------------------------------------------------------------ delete_track
Entry(track_id) == [id |-> track_id]

\* util.py 202-205: "for music in playlist: if music.id == track.id:
\* playlist.pop(playlist.index(music))". The list shrinks under the
\* iterator, whose position cur (1-based) still advances by one each round.
RECURSIVE remove_from_playlist(_, _, _)
remove_from_playlist(playlist, track_id, cur) ==
  IF cur > Len(playlist) THEN playlist
  ELSE IF playlist[cur].id = track_id
       THEN remove_from_playlist(PyPop(playlist, PyIndex(playlist, playlist[cur])), track_id, cur + 1)
       ELSE remove_from_playlist(playlist, track_id, cur + 1)

\* Mutant: the reservation is reported but the list is never written back.
reserve_pending_remove_unsaved(w, track_id) == [w |-> w, out |-> "Reserved"]

\* util.py 183-197: the track is now playing on the channel and force is off.
reserve_pending_remove(w, track_id) ==
  LET g == get_pending_remove(w.pending)
  IN  IF g.ret = None
      THEN \* pending_remove["list"] on None: TypeError
           [w |-> [w EXCEPT !.pending = g.pending], out |-> "Error"]
      ELSE LET pending_remove_list == Val(g.ret).list
               is_pending == get_is_pending_remove(g.pending, track_id)
           IN  IF ~is_pending.ret
               THEN LET new_list == IF pending_remove_list = None THEN <<track_id>>
                                    ELSE Append(Val(pending_remove_list), track_id)
                        s == set_pending_remove(is_pending.pending, Some(new_list))
                    IN  [w |-> [w EXCEPT !.pending = s.pending],
                         out |-> IF s.err THEN "Error" ELSE "Reserved"]
               ELSE [w |-> [w EXCEPT !.pending = is_pending.pending], out |-> "AlreadyReserved"]

\* util.py 175-207: the loop over track.channel, from its i-th channel on;
\* 209-217: the blob and the row are deleted when the loop ran to its end.
RECURSIVE delete_track_loop(_, _, _, _, _)
delete_track_loop(w, track_id, channel_list, i, force) ==
  IF i > Len(channel_list)
  THEN [w |-> [w EXCEPT !.catalog[track_id] = None], out |-> "Deleted"]
  ELSE LET channel == channel_list[i]
           g == get_redis_data(w.store, channel)
           w1 == [w EXCEPT !.store = g.store]
       IN  IF g.ret = None THEN delete_track_loop(w1, track_id, channel_list, i + 1, force)
           ELSE LET redis_data == Val(g.ret)
                    playing == /\ redis_data.now_playing # None
                               /\ Val(redis_data.now_playing).id = track_id
                IN  IF playing /\ ~force THEN reserve_pending_remove(w1, track_id)
                    ELSE IF PyTruthy(redis_data.playlist)
                    THEN LET playlist == remove_from_playlist(Val(redis_data.playlist), track_id, 1)
                             s == set_playlist(w1.store, channel, Some(playlist))
                         IN  delete_track_loop([w1 EXCEPT !.store = s.store], track_id,
                                               channel_list, i + 1, force)
                    ELSE delete_track_loop(w1, track_id, channel_list, i + 1, force)

delete_track(w, track_id, force) ==
  delete_track_loop(w, track_id, Val(w.catalog[track_id]).channel, 1, force)

\* --------------------------------------------------- remove_pending_track
\* Mutant: "if" for "while": only the last id of the list is handled.
drain_pending_once(w, pending_remove_list) ==
  IF pending_remove_list = <<>> THEN w
  ELSE LET track_id == pending_remove_list[Len(pending_remove_list)]
       IN  IF w.catalog[track_id] = None THEN w ELSE delete_track(w, track_id, TRUE).w

\* util.py 98-106: pop ids off the end of the list; delete those that have a row.
RECURSIVE drain_pending(_, _)
drain_pending(w, pending_remove_list) ==
  IF pending_remove_list = <<>> THEN w
  ELSE LET n == Len(pending_remove_list)
           track_id == pending_remove_list[n]
           rest == SubSeq(pending_remove_list, 1, n - 1)
       IN  IF w.catalog[track_id] = None THEN drain_pending(w, rest)
           ELSE drain_pending(delete_track(w, track_id, TRUE).w, rest)

\* Mutant: the list written back is always [], also when the record held null.
remove_pending_track_writes_empty(w) ==
  LET g == get_pending_remove(w.pending)
      w1 == [w EXCEPT !.pending = g.pending]
  IN  IF g.ret = None THEN [w |-> w1, err |-> TRUE]
      ELSE LET pending_remove_list == Val(g.ret).list
               w2 == IF pending_remove_list = None THEN w1
                     ELSE drain_pending(w1, Val(pending_remove_list))
               s == set_pending_remove(w2.pending, Some(<<>>))
           IN  [w |-> [w2 EXCEPT !.pending = s.pending], err |-> s.err]

\* remove_pending_track(): with no record, get_pending_remove returns None and
\* line 107 reads pending_remove_list before any assignment (UnboundLocalError).
remove_pending_track(w) ==
  LET g == get_pending_remove(w.pending)
      w1 == [w EXCEPT !.pending = g.pending]
  IN  IF g.ret = None THEN [w |-> w1, err |-> TRUE]
      ELSE LET pending_remove_list == Val(g.ret).list
               w2 == IF pending_remove_list = None THEN w1
                     ELSE drain_pending(w1, Val(pending_remove_list))
               s == set_pending_remove(w2.pending,
                                       IF pending_remove_list = None THEN None ELSE Some(<<>>))
           IN  [w |-> [w2 EXCEPT !.pending = s.pending], err |-> s.err]

\* ------------------------------------------------------- django Q objects
\* A lookup (field=value) or a Q node over lookups and nodes.
Lookup(field, value) == [kind |-> "lookup", field |-> field, value |-> value]
QNode(connector, negated, children) ==
  [kind |-> "q", connector |-> connector, negated |-> negated, children |-> children]

\* Q(a=x), Q(a=x, b=y), q1 | q2, ~q
Q1(field, value) == QNode("AND", FALSE, <<Lookup(field, value)>>)
Q2(f1, v1, f2, v2) == QNode("AND", FALSE, <<Lookup(f1, v1), Lookup(f2, v2)>>)
QOr(q1, q2) == QNode("OR", FALSE, <<q1, q2>>)
QNot(q) == QNode("AND", TRUE, <<q>>)

\* bool(q): django.utils.tree.Node.__bool__ is bool(self.children).
QBool(q) == q.children # <<>>

\* Python's "a and b" on two objects: b when a is true, else a.
PyAnd(a, b) == IF QBool(a) THEN b ELSE a

\* One lookup against a row. A comparison with SQL NULL is not true.
\* channel__icontains is taken as "the channel is one of the track's tags":
\* no channel name is part of another.
LookupMatches(l, track_id, row) ==
  CASE l.field = "channel__icontains" -> l.value \in Range(row.channel)
    [] l.field = "id" -> track_id = l.value
    [] l.field = "last_played_at__lt" ->
         row.last_played_at # None /\ Val(row.last_played_at) < l.value
    [] l.field = "last_played_at" -> row.last_played_at = l.value
    [] l.field = "uploaded_at__gt" -> row.uploaded_at > l.value

RECURSIVE QMatches(_, _, _)
QMatches(q, track_id, row) ==
  IF q.kind = "lookup" THEN LookupMatches(q, track_id, row)
  ELSE LET each == [i \in 1..Len(q.children) |-> QMatches(q.children[i], track_id, row)]
           m == IF q.connector = "AND" THEN \A i \in 1..Len(each) : each[i]
                ELSE \E i \in 1..Len(each) : each[i]
       IN  IF q.negated THEN ~m ELSE m

\* Track.objects.filter(q): the ids of the rows q matches.
TrackFilter(cat, q) == {t \in TrackIds : cat[t] # None /\ QMatches(q, t, Val(cat[t]))}

\* -------------------------------------------------------- get_random_track
\* util.py 139-157: the query get_random_track builds from the two ids it
\* found (None | Some(id)) and the time of the call.
WindowQ(now) ==
  QOr(Q1("last_played_at__lt", now - delta_3hour),
      Q2("last_played_at", None, "uploaded_at__gt", now - delta_10minute))

ChannelFilters(channel, now_play_track_id, last_play_track_id) ==
  LET f0 == Q1("channel__icontains", channel)
      f1 == IF now_play_track_id # None
            THEN PyAnd(f0, QNot(Q1("id", Val(now_play_track_id)))) ELSE f0
      f2 == IF last_play_track_id # None /\ now_play_track_id # last_play_track_id
            THEN PyAnd(f1, QNot(Q1("id", Val(last_play_track_id)))) ELSE f1
  IN  f2

\* util.py 156-165: the rows sampled from and the sample's size.
random_track_candidates(cat, channel, now_play_track_id, last_play_track_id, now) ==
  LET filters == ChannelFilters(channel, now_play_track_id, last_play_track_id)
      first == TrackFilter(cat, PyAnd(WindowQ(now), filters))
  IN  IF Cardinality(first) < 1 THEN TrackFilter(cat, filters) ELSE first

\* random.sample(population, k): every sequence of k different members.
RandomSample(population, k) ==
  {s \in [1..k -> population] : \A i, j \in 1..k : i # j => s[i] # s[j]}

\* get_random_track(channel, samples): the store after the read, whether it
\* raised (redis_data is None: TypeError, which "except IndexError" lets
\* through), and the lists random.sample can return.
get_random_track(st, cat, channel, samples, now) ==
  LET g == get_redis_data(st, channel)
  IN  IF g.ret = None THEN [store |-> g.store, err |-> TRUE, results |-> {}]
      ELSE LET now_playing == Val(g.ret).now_playing
               playlist == Val(g.ret).playlist
               now_play_track_id == IF now_playing # None THEN Some(Val(now_playing).id) ELSE None
               last_play_track_id == IF PyTruthy(playlist)
                                     THEN Some(Val(playlist)[Len(Val(playlist))].id) ELSE None
               tracks == random_track_candidates(cat, channel, now_play_track_id,
                                                 last_play_track_id, now)
               count_track == IF Cardinality(tracks) > samples THEN samples
                              ELSE Cardinality(tracks)
           IN  [store |-> g.store, err |-> FALSE, results |-> RandomSample(tracks, count_track)]

\* ------------------------------------------------------------- state
\* track.channel: the lists of channel tags a track may carry.
ChannelLists == {<<"trance">>, <<"house">>, <<"trance", "house">>, <<"house", "trance">>}

\* The tags of the catalog the requests run against: one track of the first
\* channel only, one of both channels, one of the second channel only, ...
InitialChannels(t) ==
  CASE t % 3 = 1 -> <<"trance">>
    [] t % 3 = 2 -> <<"trance", "house">>
    [] OTHER -> <<"house">>

Row(channel_list, last_played_at, uploaded_at) ==
  [channel |-> channel_list, last_played_at |-> last_played_at, uploaded_at |-> uploaded_at]

World == [catalog |-> catalog, store |-> store, pending |-> pending]

\* The requests that run side by side in ConcSpec: two TrackAPI.delete
\* requests and one CallbackOnStop request.
Deleters == {"d1", "d2"}
Reconcilers == {"r"}

\* The requests that run side by side in RaceSpec: two requests that each
\* add an entry to a playlist (QueueINAPI.get or the append of CallbackOnStopAPI.post).
Mutators == {"m1", "m2"}

Procs == Deleters \cup Reconcilers \cup Mutators

\* A request between two store accesses: where it is, the track object it
\* loaded (id and channel list), its position in the channel list, and the
\* pending-removal list, playlist and channel document it holds in local
\* variables, and, once it is over, how it ended.
Idle == [pc |-> "idle", track |-> 0, channels |-> <<>>, i |-> 0, list |-> None, playlist |-> <<>>,
         doc |-> None, out |-> ""]

\* What a request leaves in "last". ret is what the handler computed (a list
\* or a nullable document), notify the message handed to the daemon
\* (None | Some(message)), samples the size get_random_track was asked for,
\* index the indices the request carried, dispatch what became of the
\* notifier call.
Request(op, channel, track, out, ret, notify) ==
  [op |-> op, channel |-> channel, track |-> track, out |-> out, ret |-> ret,
   notify |-> notify, samples |-> 0, index |-> <<>>, dispatch |-> "none"]

NoRequest == Request("none", "", 0, "", <<>>, None)

Notify(channel, command, data) == Some([target |-> channel, command |-> command, data |-> data])

Entries(ids) == [i \in 1..Len(ids) |-> Entry(ids[i])]

PlaylistLen(st, channel) ==
  IF st[channel] = None THEN 0
  ELSE IF Val(st[channel]).playlist = None THEN 0 ELSE Len(Val(Val(st[channel]).playlist))

\* No request has run: no redis key exists, every track has its row, has
\* never been played and was uploaded long ago. Requests on a track come
\* from its owner.
Init ==
  /\ catalog = [t \in TrackIds |-> Some(Row(InitialChannels(t), None, 0))]
  /\ store = [c \in SERVICE_CHANNEL |-> None]
  /\ pending = None
  /\ clock = 200
  /\ txn = None
  /\ last = NoRequest
  /\ procs = [p \in Procs |-> Idle]
  /\ likes = [t \in TrackIds |-> None]

\* ----------------------------------------------------------- handlers
\* NowPlayingAPI.get: a read of the channel's document through
\* get_redis_data; ret is what get_redis_data returned.
NowPlayingAPI(channel) ==
  /\ txn = None
  /\ LET g == get_redis_data(store, channel)
     IN  /\ store' = g.store
         /\ last' = Request("get", channel, 0, "OK", g.ret, None)
  /\ UNCHANGED <<catalog, pending, clock, txn, procs, likes>>

\* Mutant: the handler does not look the track up in the pending-removal list.
track_api_delete_unchecked(w, track_id) ==
  IF w.catalog[track_id] = None THEN [w |-> w, out |-> "DoesNotExist"]
  ELSE delete_track(w, track_id, FALSE)

\* TrackAPI.delete as a function of the state: the state it leaves and its outcome.
track_api_delete(w, track_id) ==
  IF w.catalog[track_id] = None THEN [w |-> w, out |-> "DoesNotExist"]
  ELSE LET p == get_is_pending_remove(w.pending, track_id)
           w1 == [w EXCEPT !.pending = p.pending]
       IN  IF p.ret THEN [w |-> w1, out |-> "AlreadyReserved"]
           ELSE delete_track(w1, track_id, FALSE)

\* TrackAPI.delete. It runs in transaction.atomic: the row is gone only when
\* the handler returned (the redis writes stay whatever it raised).
TrackAPIDelete(track_id) ==
  /\ txn = None
  /\ LET r == track_api_delete(World, track_id)
     IN  /\ catalog' = IF r.out = "Deleted" THEN r.w.catalog ELSE catalog
         /\ store' = r.w.store
         /\ pending' = r.w.pending
         /\ last' = Request("delete", "", track_id, r.out, <<>>, None)
  /\ UNCHANGED <<clock, txn, procs, likes>>

\* CallbackOnStop.post, lines 639-643: remove_pending_track(). The handler's
\* transaction stays open (txn) until CallbackOnStopSelect ends it; no other
\* request runs in between.
CallbackOnStopReconcile(channel) ==
  /\ txn = None
  /\ PlaylistLen(store, channel) < MaxLen
  /\ LET r == remove_pending_track(World)
     IN  /\ store' = r.w.store
         /\ pending' = r.w.pending
         /\ IF r.err
            THEN /\ catalog' = catalog
                 /\ txn' = None
                 /\ last' = Request("on_stop", channel, 0, "Error", <<>>, None)
            ELSE /\ catalog' = r.w.catalog
                 /\ txn' = Some([channel |-> channel, catalog |-> catalog])
                 /\ last' = Request("reconcile", channel, 0, "OK", <<>>, None)
  /\ UNCHANGED <<clock, procs, likes>>

\* CallbackOnStop.post, lines 645-665: pick one track and append it. An
\* exception rolls the transaction back: the rows remove_pending_track
\* deleted are there again.
CallbackOnStopSelect ==
  /\ txn # None
  /\ LET channel == Val(txn).channel
         sel == get_random_track(store, catalog, channel, 1, clock)
     IN  IF sel.err
         THEN /\ store' = sel.store
              /\ catalog' = Val(txn).catalog
              /\ last' = Request("on_stop", channel, 0, "Error", <<>>, None)
         ELSE \E random_tracks \in sel.results :
                IF random_tracks = <<>>
                THEN /\ store' = sel.store
                     /\ catalog' = catalog
                     /\ last' = Request("on_stop", channel, 0, "OK", <<>>, None)
                ELSE LET new_track == Entry(random_tracks[1])
                         g == get_redis_data(sel.store, channel)
                         playlist == Val(g.ret).playlist
                     IN  IF playlist = None
                         THEN \* None.append: AttributeError
                              /\ store' = g.store
                              /\ catalog' = Val(txn).catalog
                              /\ last' = Request("on_stop", channel, 0, "Error", <<>>, None)
                         ELSE /\ store' = set_playlist(g.store, channel,
                                                       Some(Append(Val(playlist), new_track))).store
                              /\ catalog' = catalog
                              /\ last' = Request("on_stop", channel, new_track.id, "OK",
                                                 <<new_track>>, None)
  /\ txn' = None
  /\ UNCHANGED <<pending, clock, procs, likes>>

\* views.py 574-586: the else branch of CallbackOnStartupAPI.get, one outcome
\* (the store it leaves, the response) for every list get_random_track can
\* return.
startup_seed(st, cat, channel, now) ==
  LET sel == get_random_track(st, cat, channel, NUM_SAMPLES, now)
  IN  {[store |-> set_playlist(sel.store, channel, Some(Entries(queue_tracks))).store,
        ret |-> Entries(queue_tracks)] : queue_tracks \in sel.results}

\* Mutant: "is not None" for the truth test: an empty playlist counts as a
\* queue that exists.
callback_on_startup_keeps_empty(st, cat, channel, now) ==
  LET g == get_redis_data(st, channel)
  IN  IF g.ret # None /\ Val(g.ret).playlist # None
      THEN {[store |-> g.store, ret |-> Val(Val(g.ret).playlist)]}
      ELSE startup_seed(g.store, cat, channel, now)

\* views.py 567-586: "if redis_data and redis_data['playlist']" is false for
\* the None the first read of a missing document returns, for a null playlist
\* and for an empty list.
callback_on_startup(st, cat, channel, now) ==
  LET g == get_redis_data(st, channel)
  IN  IF g.ret # None /\ PyTruthy(Val(g.ret).playlist)
      THEN {[store |-> g.store, ret |-> Val(Val(g.ret).playlist)]}
      ELSE startup_seed(g.store, cat, channel, now)

\* CallbackOnStartup.get
CallbackOnStartup(channel) ==
  /\ txn = None
  /\ \E r \in callback_on_startup(store, catalog, channel, clock) :
       /\ store' = r.store
       /\ last' = Request("on_startup", channel, 0, "OK", r.ret, None)
  /\ UNCHANGED <<catalog, pending, clock, txn, procs, likes>>

\* api.request_async_threaded(...): the call hands the message to a thread and
\* returns; the message reaches the daemon, or is lost, or the call itself
\* raises.
NotifyOutcomes == {"sent", "lost", "raised"}

\* Mutant: the daemon is told first, the playlist is saved afterwards.
queue_commit_notify_first(st, channel, playlist, command, data, outcome) ==
  [store |-> IF outcome = "raised" THEN st ELSE set_playlist(st, channel, Some(playlist)).store,
   notify |-> Notify(channel, command, data),
   dispatch |-> outcome,
   out |-> IF outcome = "raised" THEN "Error" ELSE "OK"]

\* The end of QueueINAPI.get, QueueMoveAPI.get and QueueOUTAPI.delete:
\* set_redis_data(channel, "playlist", playlist), then the notifier call,
\* then the response. Redis is outside the database transaction: what was
\* written stays when the call raises.
queue_commit(st, channel, playlist, command, data, outcome) ==
  [store |-> set_playlist(st, channel, Some(playlist)).store,
   notify |-> Notify(channel, command, data),
   dispatch |-> outcome,
   out |-> IF outcome = "raised" THEN "Error" ELSE "OK"]

\* A queue request that ended in c (a queue_commit) or raised before it.
QueueDone(op, channel, track_id, index, c) ==
  [Request(op, channel, track_id, c.out, <<>>, c.notify)
     EXCEPT !.index = index, !.dispatch = c.dispatch]

QueueFailed(op, channel, track_id, index, out) ==
  [Request(op, channel, track_id, out, <<>>, None) EXCEPT !.index = index]

\* QueueINAPI.get
QueueINAPI(channel, track_id, index) ==
  /\ txn = None
  /\ IF catalog[track_id] = None
     THEN /\ last' = QueueFailed("queue_in", channel, track_id, <<index>>, "DoesNotExist")
          /\ UNCHANGED <<store, pending>>
     ELSE LET p == get_is_pending_remove(pending, track_id)
          IN  /\ pending' = p.pending
              /\ IF p.ret
                 THEN /\ last' = QueueFailed("queue_in", channel, track_id, <<index>>,
                                             "ReservedPending")
                      /\ UNCHANGED store
                 ELSE LET g == get_redis_data(store, channel)
                      IN  IF g.ret = None \/ Val(g.ret).playlist = None
                          THEN \* None["playlist"]: TypeError; None.insert: AttributeError
                               /\ store' = g.store
                               /\ last' = QueueFailed("queue_in", channel, track_id, <<index>>,
                                                      "Error")
                          ELSE \E outcome \in NotifyOutcomes :
                                 LET playlist == PyInsert(Val(Val(g.ret).playlist), index,
                                                          Entry(track_id))
                                     c == queue_commit(g.store, channel, playlist, "setlist",
                                                       playlist, outcome)
                                 IN  /\ store' = c.store
                                     /\ last' = QueueDone("queue_in", channel, track_id,
                                                          <<index>>, c)
  /\ UNCHANGED <<catalog, clock, txn, procs, likes>>

\* Mutant: the two entries change places.
queue_move_swap(playlist, from_index, to_index) ==
  IF from_index + 1 > Len(playlist) \/ to_index + 1 > Len(playlist)
  THEN [err |-> TRUE, playlist |-> playlist]
  ELSE [err |-> FALSE,
        playlist |-> [k \in 1..Len(playlist) |->
                        IF k = to_index + 1 THEN playlist[from_index + 1]
                        ELSE IF k = from_index + 1 THEN playlist[to_index + 1]
                        ELSE playlist[k]]]

\* views.py 508: playlist.insert(to_index, playlist.pop(from_index)). The
\* pop runs first and raises IndexError (err); insert never raises.
queue_move(playlist, from_index, to_index) ==
  LET popped == PyPopAt(playlist, from_index)
  IN  IF popped.err THEN [err |-> TRUE, playlist |-> playlist]
      ELSE [err |-> FALSE, playlist |-> PyInsert(popped.list, to_index, popped.item[1])]

\* QueueMoveAPI.get
QueueMoveAPI(channel, from_index, to_index) ==
  /\ txn = None
  /\ LET g == get_redis_data(store, channel)
         index == <<from_index, to_index>>
     IN  IF g.ret = None \/ Val(g.ret).playlist = None
         THEN \* None["playlist"]: TypeError; None.pop: AttributeError
              /\ store' = g.store
              /\ last' = QueueFailed("queue_move", channel, 0, index, "Error")
         ELSE LET moved == queue_move(Val(Val(g.ret).playlist), from_index, to_index)
              IN  IF moved.err
                  THEN /\ store' = g.store
                       /\ last' = QueueFailed("queue_move", channel, 0, index, "IndexError")
                  ELSE \E outcome \in NotifyOutcomes :
                         LET c == queue_commit(g.store, channel, moved.playlist, "setlist",
                                               moved.playlist, outcome)
                         IN  /\ store' = c.store
                             /\ last' = QueueDone("queue_move", channel, 0, index, c)
  /\ UNCHANGED <<catalog, pending, clock, txn, procs, likes>>

\* Mutant: pop() for pop(index): the last entry goes.
queue_out_last(playlist, index) ==
  IF index + 1 > Len(playlist) THEN [err |-> TRUE, playlist |-> playlist]
  ELSE [err |-> FALSE, playlist |-> SubSeq(playlist, 1, Len(playlist) - 1)]

\* views.py 538: playlist.pop(index)
queue_out(playlist, index) ==
  LET popped == PyPopAt(playlist, index)
  IN  [err |-> popped.err, playlist |-> popped.list]

\* QueueOUTAPI.delete
QueueOUTAPI(channel, index) ==
  /\ txn = None
  /\ LET g == get_redis_data(store, channel)
     IN  IF g.ret = None \/ Val(g.ret).playlist = None
         THEN \* None["playlist"]: TypeError; None.pop: AttributeError
              /\ store' = g.store
              /\ last' = QueueFailed("queue_out", channel, 0, <<index>>, "Error")
         ELSE LET removed == queue_out(Val(Val(g.ret).playlist), index)
              IN  IF removed.err
                  THEN /\ store' = g.store
                       /\ last' = QueueFailed("queue_out", channel, 0, <<index>>, "IndexError")
                  ELSE \E outcome \in NotifyOutcomes :
                         LET c == queue_commit(g.store, channel, removed.playlist, "unqueue",
                                               [index_at |-> index], outcome)
                         IN  /\ store' = c.store
                             /\ last' = QueueDone("queue_out", channel, 0, <<index>>, c)
  /\ UNCHANGED <<catalog, pending, clock, txn, procs, likes>>

\* views.py 416-431: the tracks whose id is not in the pending-removal list,
\* in their order; each lookup is a get_is_pending_remove (the first one
\* writes the default record when the record is missing).
RECURSIVE reset_daemon_data(_, _)
reset_daemon_data(pend, random_tracks) ==
  IF random_tracks = <<>> THEN <<>>
  ELSE LET rest == reset_daemon_data(pend, Tail(random_tracks))
       IN  IF get_is_pending_remove(pend, random_tracks[1]).ret THEN rest
           ELSE <<Entry(random_tracks[1])>> \o rest

\* PlayQueueResetAPI.get: the list is sent to the daemon; nothing is written
\* to the channel's document.
PlayQueueResetAPI(channel) ==
  /\ txn = None
  /\ LET sel == get_random_track(store, catalog, channel, NUM_SAMPLES, clock)
     IN  /\ store' = sel.store
         /\ IF sel.err
            THEN /\ last' = Request("reset", channel, 0, "Error", <<>>, None)
                 /\ pending' = pending
            ELSE \E random_tracks \in sel.results, outcome \in NotifyOutcomes :
                   LET response_daemon_data == reset_daemon_data(pending, random_tracks)
                   IN  /\ pending' = IF random_tracks = <<>> THEN pending
                                     ELSE get_pending_remove(pending).pending
                       /\ last' = [Request("reset", channel, 0,
                                           IF outcome = "raised" THEN "Error" ELSE "OK",
                                           response_daemon_data,
                                           Notify(channel, "setlist", response_daemon_data))
                                     EXCEPT !.dispatch = outcome]
  /\ UNCHANGED <<catalog, clock, txn, procs, likes>>

\* The playback daemon reports what it airs on a channel it has started:
\* now_playing becomes the entry of a track of the catalog, or null.
DaemonNowPlaying(channel, now_playing) ==
  /\ txn = None
  /\ store[channel] # None
  /\ now_playing # None => catalog[Val(now_playing).id] # None
  /\ store' = [store EXCEPT ![channel] = Some([Val(store[channel]) EXCEPT !.now_playing = now_playing])]
  /\ last' = Request("now_playing", channel, 0, "OK", <<>>, None)
  /\ UNCHANGED <<catalog, pending, clock, txn, procs, likes>>

\* The indices a queue request carries: every position of a playlist and
\* the first one past the longest.
Indices == 0..MaxLen

NowPlayingEntries == {None} \cup {Some(Entry(t)) : t \in TrackIds}

Next ==
  \/ \E c \in SERVICE_CHANNEL : NowPlayingAPI(c)
  \/ \E t \in TrackIds : TrackAPIDelete(t)
  \/ \E c \in SERVICE_CHANNEL : CallbackOnStopReconcile(c)
  \/ CallbackOnStopSelect
  \/ \E c \in SERVICE_CHANNEL : CallbackOnStartup(c)
  \/ \E c \in SERVICE_CHANNEL, t \in TrackIds, i \in Indices :
       PlaylistLen(store, c) < MaxLen /\ QueueINAPI(c, t, i)
  \/ \E c \in SERVICE_CHANNEL : PlayQueueResetAPI(c)
  \/ \E c \in SERVICE_CHANNEL, np \in NowPlayingEntries : DaemonNowPlaying(c, np)

Spec == Init /\ [][Next]_vars

\* ---------------------------------------------- get_random_track alone
\* The rotation selector on drawn inputs: a catalog whose tracks carry any
\* tags and any of the play histories below, the first channel's document
\* with any now_playing and any playlist of at most one entry (the selector
\* reads the last entry only), the second channel without a document, and
\* the time 200. 19 and 20 lie before and on now - 3h, 190 and 191 on and
\* after now - 10min.
PlayHistories ==
  {<<None, 191>>, <<None, 190>>, <<Some(19), 0>>, <<Some(20), 0>>}

SelectPlaylists ==
  {None, Some(<<>>)} \cup {Some(<<Entry(t)>>) : t \in TrackIds}

SelectInit ==
  /\ catalog \in [TrackIds -> {Some(Row(cl, h[1], h[2])) : cl \in ChannelLists, h \in PlayHistories}]
  /\ \E np \in NowPlayingEntries, pl \in SelectPlaylists :
       store = [c \in SERVICE_CHANNEL |->
                  IF c = "trance" THEN Some([now_playing |-> np, playlist |-> pl]) ELSE None]
  /\ pending = None
  /\ clock = 200
  /\ txn = None
  /\ last = NoRequest
  /\ procs = [p \in Procs |-> Idle]
  /\ likes = [t \in TrackIds |-> None]

\* get_random_track(channel, samples), as PlayQueueResetAPI, CallbackOnStartupAPI
\* and CallbackOnStopAPI call it; ret is the list of track ids it returned.
SelectRandomTracks(channel, samples) ==
  /\ LET sel == get_random_track(store, catalog, channel, samples, clock)
     IN  /\ store' = sel.store
         /\ IF sel.err
            THEN last' = [Request("select", channel, 0, "Error", <<>>, None) EXCEPT !.samples = samples]
            ELSE \E random_tracks \in sel.results :
                   last' = [Request("select", channel, 0, "OK", random_tracks, None)
                              EXCEPT !.samples = samples]
  /\ UNCHANGED <<catalog, pending, clock, txn, procs, likes>>

SelectNext == \E c \in SERVICE_CHANNEL, n \in 0..MaxSamples : SelectRandomTracks(c, n)

SelectSpec == SelectInit /\ [][SelectNext]_vars

\* ------------------------------------------- remove_pending_track alone
\* The on-stop callback on drawn inputs: any rows missing, the
\* pending-removal record missing, null or any list of at most MaxPending
\* ids (an id may be listed twice or have no row: concurrent requests leave
\* such lists), and per channel no document or a document with any
\* now_playing and a playlist that is null or holds at most one entry.
BoundedLists(S, n) == UNION {[1..k -> S] : k \in 0..n}

DrainInit ==
  /\ catalog \in [TrackIds -> {None} \cup {Some(Row(cl, None, 0)) : cl \in {<<"trance">>, <<"trance", "house">>}}]
  /\ pending \in {None, Some([list |-> None])}
                 \cup {Some([list |-> Some(l)]) : l \in BoundedLists(TrackIds, MaxPending)}
  /\ store \in [SERVICE_CHANNEL ->
                  {None} \cup {Some([now_playing |-> np, playlist |-> pl]) :
                                 np \in NowPlayingEntries, pl \in SelectPlaylists}]
  /\ clock = 200
  /\ txn = None
  /\ last = NoRequest
  /\ procs = [p \in Procs |-> Idle]
  /\ likes = [t \in TrackIds |-> None]

DrainNext ==
  \/ \E c \in SERVICE_CHANNEL : CallbackOnStopReconcile(c)
  \/ CallbackOnStopSelect

DrainSpec == DrainInit /\ [][DrainNext]_vars

\* ------------------------------------------- requests running side by side
\* Every request is handled on its own; each redis access is one step, and
\* between two steps of a request the others may run. Each delete request
\* is handled once, on-stop callbacks keep coming. The store starts with a
\* document per channel, any track on air on each, every track queued.
ConcInit ==
  /\ catalog = [t \in TrackIds |-> Some(Row(InitialChannels(t), None, 0))]
  /\ store \in [SERVICE_CHANNEL -> {Some([now_playing |-> np,
                                            playlist |-> Some([t \in TrackIds |-> Entry(t)])]) :
                                      np \in NowPlayingEntries}]
  /\ pending = None
  /\ clock = 200
  /\ txn = None
  /\ last = NoRequest
  /\ procs = [p \in Procs |-> Idle]
  /\ likes = [t \in TrackIds |-> None]

Finish(p, op, track_id, out) ==
  /\ procs' = [procs EXCEPT ![p] = IF p \in Deleters
                                   THEN [Idle EXCEPT !.pc = "done", !.track = track_id, !.out = out]
                                   ELSE Idle]
  /\ last' = Request(op, "", track_id, out, <<>>, None)

Goto(p, local) ==
  /\ procs' = [procs EXCEPT ![p] = local]
  /\ last' = last

\* TrackAPI.delete, lines 228-231: Track.objects.get(id=track_id)
DeleteLookup(p, track_id) ==
  /\ procs[p].pc = "idle"
  /\ IF catalog[track_id] = None THEN Finish(p, "delete", track_id, "DoesNotExist")
     ELSE Goto(p, [Idle EXCEPT !.pc = "check", !.track = track_id,
                               !.channels = Val(catalog[track_id]).channel])
  /\ UNCHANGED <<catalog, store, pending, clock, txn, likes>>

\* TrackAPI.delete, lines 233-235: get_is_pending_remove(track_id)
DeleteCheck(p) ==
  /\ procs[p].pc = "check"
  /\ LET g == get_is_pending_remove(pending, procs[p].track)
     IN  /\ pending' = g.pending
         /\ IF g.ret THEN Finish(p, "delete", procs[p].track, "AlreadyReserved")
            ELSE Goto(p, [procs[p] EXCEPT !.pc = "channel", !.i = 1])
  /\ UNCHANGED <<catalog, store, clock, txn, likes>>

\* delete_track, lines 175-205: the read of the i-th channel's document and
\* what follows it up to the next store access.
DeleteReadChannel(p) ==
  /\ procs[p].pc = "channel"
  /\ procs[p].i <= Len(procs[p].channels)
  /\ LET me == procs[p]
         g == get_redis_data(store, me.channels[me.i])
     IN  /\ store' = g.store
         /\ IF g.ret = None THEN Goto(p, [me EXCEPT !.i = me.i + 1])
            ELSE LET redis_data == Val(g.ret)
                 IN  IF redis_data.now_playing # None /\ Val(redis_data.now_playing).id = me.track
                     THEN Goto(p, [me EXCEPT !.pc = "read_pending"])
                     ELSE IF PyTruthy(redis_data.playlist)
                     THEN Goto(p, [me EXCEPT !.pc = "write_playlist",
                                   !.playlist = remove_from_playlist(Val(redis_data.playlist),
                                                                     me.track, 1)])
                     ELSE Goto(p, [me EXCEPT !.i = me.i + 1])
  /\ UNCHANGED <<catalog, pending, clock, txn, likes>>

\* delete_track, line 207: set_redis_data(channel, "playlist", playlist)
DeleteWritePlaylist(p) ==
  /\ procs[p].pc = "write_playlist"
  /\ LET me == procs[p]
     IN  /\ store' = set_playlist(store, me.channels[me.i], Some(me.playlist)).store
         /\ Goto(p, [me EXCEPT !.pc = "channel", !.i = me.i + 1, !.playlist = <<>>])
  /\ UNCHANGED <<catalog, pending, clock, txn, likes>>

\* delete_track, lines 183-184: pending_remove = get_pending_remove()
DeleteReadPending(p) ==
  /\ procs[p].pc = "read_pending"
  /\ LET g == get_pending_remove(pending)
     IN  /\ pending' = g.pending
         /\ IF g.ret = None THEN Finish(p, "delete", procs[p].track, "Error")
            ELSE Goto(p, [procs[p] EXCEPT !.pc = "recheck", !.list = Val(g.ret).list])
  /\ UNCHANGED <<catalog, store, clock, txn, likes>>

\* delete_track, lines 185-189 and 197: get_is_pending_remove(track.id), then
\* the append to the list read before.
DeleteRecheck(p) ==
  /\ procs[p].pc = "recheck"
  /\ Len(PendingList(Some([list |-> procs[p].list]))) < MaxPending
  /\ LET me == procs[p]
         g == get_is_pending_remove(pending, me.track)
     IN  /\ pending' = g.pending
         /\ IF g.ret THEN Finish(p, "delete", me.track, "AlreadyReserved")
            ELSE Goto(p, [me EXCEPT !.pc = "write_pending",
                          !.list = IF me.list = None THEN Some(<<me.track>>)
                                   ELSE Some(Append(Val(me.list), me.track))])
  /\ UNCHANGED <<catalog, store, clock, txn, likes>>

\* delete_track, lines 190-195: set_pending_remove(pending_remove_list), raise
DeleteWritePending(p) ==
  /\ procs[p].pc = "write_pending"
  /\ LET s == set_pending_remove(pending, procs[p].list)
     IN  /\ pending' = s.pending
         /\ Finish(p, "delete", procs[p].track, IF s.err THEN "Error" ELSE "Reserved")
  /\ UNCHANGED <<catalog, store, clock, txn, likes>>

\* delete_track, lines 209-217: the loop is over, the blob and the row go.
DeleteRow(p) ==
  /\ procs[p].pc = "channel"
  /\ procs[p].i > Len(procs[p].channels)
  /\ catalog' = [catalog EXCEPT ![procs[p].track] = None]
  /\ Finish(p, "delete", procs[p].track, "Deleted")
  /\ UNCHANGED <<store, pending, clock, txn, likes>>

\* remove_pending_track, lines 92-97: pending_remove = get_pending_remove()
ReconcileRead(p) ==
  /\ procs[p].pc = "idle"
  /\ LET g == get_pending_remove(pending)
     IN  /\ pending' = g.pending
         /\ IF g.ret = None THEN Finish(p, "on_stop", 0, "Error")
            ELSE Goto(p, [Idle EXCEPT !.pc = "drain", !.list = Val(g.ret).list])
  /\ UNCHANGED <<catalog, store, clock, txn, likes>>

\* remove_pending_track, lines 98-106: one round of the while loop (the
\* forced delete_track of the popped id taken as one step).
ReconcileDrain(p) ==
  /\ procs[p].pc = "drain"
  /\ PyTruthy(procs[p].list)
  /\ LET me == procs[p]
         n == Len(Val(me.list))
         track_id == Val(me.list)[n]
         w == IF catalog[track_id] = None THEN World ELSE delete_track(World, track_id, TRUE).w
     IN  /\ catalog' = w.catalog
         /\ store' = w.store
         /\ Goto(p, [me EXCEPT !.list = Some(SubSeq(Val(me.list), 1, n - 1))])
  /\ UNCHANGED <<pending, clock, txn, likes>>

\* remove_pending_track, line 107: set_pending_remove(pending_remove_list)
ReconcileWrite(p) ==
  /\ procs[p].pc = "drain"
  /\ ~PyTruthy(procs[p].list)
  /\ pending' = set_pending_remove(pending, procs[p].list).pending
  /\ Finish(p, "reconcile", 0, "OK")
  /\ UNCHANGED <<catalog, store, clock, txn, likes>>

ConcNext ==
  \/ \E p \in Deleters, t \in TrackIds : DeleteLookup(p, t)
  \/ \E p \in Deleters : DeleteCheck(p)
  \/ \E p \in Deleters : DeleteReadChannel(p)
  \/ \E p \in Deleters : DeleteWritePlaylist(p)
  \/ \E p \in Deleters : DeleteReadPending(p)
  \/ \E p \in Deleters : DeleteRecheck(p)
  \/ \E p \in Deleters : DeleteWritePending(p)
  \/ \E p \in Deleters : DeleteRow(p)
  \/ \E p \in Reconcilers : ReconcileRead(p)
  \/ \E p \in Reconcilers : ReconcileDrain(p)
  \/ \E p \in Reconcilers : ReconcileWrite(p)

ConcSpec == ConcInit /\ [][ConcNext]_vars

\* A request that has begun runs to its end, and on-stop callbacks keep
\* coming: the reconciler takes its next step whenever it has been able to
\* for long enough.
DeleteStep(p) ==
  \/ DeleteCheck(p) \/ DeleteReadChannel(p) \/ DeleteWritePlaylist(p) \/ DeleteReadPending(p)
  \/ DeleteRecheck(p) \/ DeleteWritePending(p) \/ DeleteRow(p)

ReconcileStepOf(p) == ReconcileRead(p) \/ ReconcileDrain(p) \/ ReconcileWrite(p)

ConcFairSpec ==
  /\ ConcSpec
  /\ \A p \in Deleters : WF_vars(DeleteStep(p))
  /\ \A p \in Reconcilers : WF_vars(ReconcileStepOf(p))

\* ------------------------------------- playlist writers running side by side
\* Two requests that each add an entry to a channel's playlist, each redis
\* access one step: the read of the document and the edit of the list
\* (QueueINAPI.get 468-478, CallbackOnStopAPI.post 658-660), then inside
\* set_redis_data the read of the document (line 44) and the write of the
\* whole document (lines 45-46). Every channel has a document with nothing
\* on air and a playlist of at most one entry.
RaceInit ==
  /\ catalog = [t \in TrackIds |-> Some(Row(InitialChannels(t), None, 0))]
  /\ store \in [SERVICE_CHANNEL -> {Some([now_playing |-> None, playlist |-> Some(Entries(l))]) :
                                      l \in BoundedLists(TrackIds, 1)}]
  /\ pending = Some([list |-> Some(<<>>)])
  /\ clock = 200
  /\ txn = None
  /\ last = NoRequest
  /\ procs = [p \in Procs |-> Idle]
  /\ likes = [t \in TrackIds |-> None]

\* The request p is over.
WriterDone(p, op, out) ==
  /\ procs' = [procs EXCEPT ![p] = [@ EXCEPT !.pc = "done", !.out = out]]
  /\ last' = Request(op, procs[p].channels[1], procs[p].track, out, <<>>, None)

\* QueueINAPI.get, lines 468-478, for a track that has a row and is not
\* reserved: redis_data = get_redis_data(channel); playlist.insert(index, new_track)
QueueINRead(p, channel, track_id, index) ==
  /\ procs[p].pc = "idle"
  /\ catalog[track_id] # None
  /\ ~get_is_pending_remove(pending, track_id).ret
  /\ LET g == get_redis_data(store, channel)
     IN  /\ store' = g.store
         /\ g.ret # None /\ Val(g.ret).playlist # None
         /\ Goto(p, [Idle EXCEPT !.pc = "set_read", !.track = track_id, !.channels = <<channel>>,
                                 !.playlist = PyInsert(Val(Val(g.ret).playlist), index,
                                                       Entry(track_id))])
  /\ UNCHANGED <<catalog, pending, clock, txn, likes>>

\* CallbackOnStopAPI.post, lines 658-660, track_id being the track
\* get_random_track returned: redis_data = get_redis_data(channel);
\* playlist.append(new_track)
OnStopAppendRead(p, channel, track_id) ==
  /\ procs[p].pc = "idle"
  /\ catalog[track_id] # None
  /\ LET g == get_redis_data(store, channel)
     IN  /\ store' = g.store
         /\ g.ret # None /\ Val(g.ret).playlist # None
         /\ Goto(p, [Idle EXCEPT !.pc = "set_read", !.track = track_id, !.channels = <<channel>>,
                                 !.playlist = Append(Val(Val(g.ret).playlist), Entry(track_id))])
  /\ UNCHANGED <<catalog, pending, clock, txn, likes>>

\* set_redis_data, line 44: redis_data = get_redis_data(channel)
SetRedisRead(p) ==
  /\ procs[p].pc = "set_read"
  /\ LET g == get_redis_data(store, procs[p].channels[1])
     IN  /\ store' = g.store
         /\ g.ret # None
         /\ Goto(p, [procs[p] EXCEPT !.pc = "set_write", !.doc = g.ret])
  /\ UNCHANGED <<catalog, pending, clock, txn, likes>>

\* Mutant: the write is dropped when the document is no longer the one read.
set_redis_write_if_same(st, channel, redis_data, value) ==
  IF st[channel] # Some(redis_data) THEN st
  ELSE [st EXCEPT ![channel] = Some([redis_data EXCEPT !.playlist = value])]

\* set_redis_data, lines 45-46: redis_data[key] = value; redis_server.set(channel, ...)
set_redis_write(st, channel, redis_data, value) ==
  [st EXCEPT ![channel] = Some([redis_data EXCEPT !.playlist = value])]

\* set_redis_data, lines 45-46, and the rest of the handler.
SetRedisWrite(p) ==
  /\ procs[p].pc = "set_write"
  /\ store' = set_redis_write(store, procs[p].channels[1], Val(procs[p].doc),
                              Some(procs[p].playlist))
  /\ WriterDone(p, "add_entry", "OK")
  /\ UNCHANGED <<catalog, pending, clock, txn, likes>>

RaceNext ==
  \/ \E p \in Mutators, c \in SERVICE_CHANNEL, t \in TrackIds, i \in Indices :
       QueueINRead(p, c, t, i)
  \/ \E p \in Mutators, c \in SERVICE_CHANNEL, t \in TrackIds : OnStopAppendRead(p, c, t)
  \/ \E p \in Mutators : SetRedisRead(p)
  \/ \E p \in Mutators : SetRedisWrite(p)

RaceSpec == RaceInit /\ [][RaceNext]_vars

\* ------------------------------------------------ the queue requests alone
\* QueueINAPI, QueueMoveAPI and QueueOUTAPI on drawn inputs: the first
\* channel's document holds no playlist or any playlist of at most MaxQueue
\* entries, the second channel has no document yet; the indices run over
\* every position and the first one past the longest playlist.
QueueIndices == 0..MaxQueue

QueueInit ==
  /\ catalog = [t \in TrackIds |-> Some(Row(InitialChannels(t), None, 0))]
  /\ \E pl \in {None} \cup {Some(Entries(l)) : l \in BoundedLists(TrackIds, MaxQueue)} :
       store = [c \in SERVICE_CHANNEL |->
                  IF c = "trance" THEN Some([now_playing |-> None, playlist |-> pl]) ELSE None]
  /\ pending = None
  /\ clock = 200
  /\ txn = None
  /\ last = NoRequest
  /\ procs = [p \in Procs |-> Idle]
  /\ likes = [t \in TrackIds |-> None]

QueueNext ==
  \/ \E c \in SERVICE_CHANNEL, t \in TrackIds, i \in QueueIndices :
       PlaylistLen(store, c) < MaxQueue /\ QueueINAPI(c, t, i)
  \/ \E c \in SERVICE_CHANNEL, i, j \in QueueIndices : QueueMoveAPI(c, i, j)
  \/ \E c \in SERVICE_CHANNEL, i \in QueueIndices : QueueOUTAPI(c, i)

QueueSpec == QueueInit /\ [][QueueNext]_vars

\* ------------------------------------------- the requests on one track
\* The handlers that turn a request on a reserved track down.

\* A request on a track that raised or answered out.
TrackDone(op, track_id, out) == Request(op, "", track_id, out, <<>>, None)

\* TrackAPI.get
TrackAPIGet(track_id) ==
  /\ txn = None
  /\ IF catalog[track_id] = None
     THEN /\ last' = TrackDone("view", track_id, "DoesNotExist")
          /\ pending' = pending
     ELSE LET p == get_is_pending_remove(pending, track_id)
          IN  /\ pending' = p.pending
              /\ last' = IF p.ret THEN TrackDone("view", track_id, "ReservedPending")
                         ELSE [TrackDone("view", track_id, "OK")
                                 EXCEPT !.ret = <<Val(catalog[track_id])>>]
  /\ UNCHANGED <<catalog, store, clock, txn, procs, likes>>

\* TrackAPI.put, the request coming from the track's owner: serializer.save()
\* writes the fields sent, here the channel tags.
TrackAPIPut(track_id, channel) ==
  /\ txn = None
  /\ IF catalog[track_id] = None
     THEN /\ last' = TrackDone("put", track_id, "DoesNotExist")
          /\ UNCHANGED <<catalog, pending>>
     ELSE LET p == get_is_pending_remove(pending, track_id)
          IN  /\ pending' = p.pending
              /\ IF p.ret
                 THEN /\ last' = TrackDone("put", track_id, "ReservedPending")
                      /\ catalog' = catalog
                 ELSE /\ catalog' = [catalog EXCEPT
                                       ![track_id] = Some([Val(@) EXCEPT !.channel = channel])]
                      /\ last' = TrackDone("put", track_id, "OK")
  /\ UNCHANGED <<store, clock, txn, procs, likes>>

\* UpdateTrackForm.save on the form of an existing track: every channel
\* chosen is a service channel, and instance.channel = channel is saved.
UpdateTrackFormSave(track_id, channel) ==
  /\ txn = None
  /\ catalog[track_id] # None
  /\ LET p == get_is_pending_remove(pending, track_id)
     IN  /\ pending' = p.pending
         /\ IF p.ret
            THEN /\ last' = TrackDone("form_save", track_id, "ReservedPending")
                 /\ catalog' = catalog
            ELSE /\ catalog' = [catalog EXCEPT
                                  ![track_id] = Some([Val(@) EXCEPT !.channel = channel])]
                 /\ last' = TrackDone("form_save", track_id, "OK")
  /\ UNCHANGED <<store, clock, txn, procs, likes>>

\* request.data["like"]: missing (None), true or false.
LikeValues == {None, Some(TRUE), Some(FALSE)}

\* Mutant: the handler does not look the track up in the pending-removal list.
like_api_unchecked(w, lk, track_id, like_value) ==
  IF w.catalog[track_id] = None
  THEN [pending |-> w.pending, likes |-> lk, out |-> "DoesNotExist"]
  ELSE [pending |-> w.pending, likes |-> [lk EXCEPT ![track_id] = Some(like_value)],
        out |-> "OK"]

\* LikeAPI.post as a function of the state: the user's Like row of the track
\* is made or updated with the value sent.
like_api(w, lk, track_id, like_value) ==
  IF w.catalog[track_id] = None
  THEN [pending |-> w.pending, likes |-> lk, out |-> "DoesNotExist"]
  ELSE LET p == get_is_pending_remove(w.pending, track_id)
       IN  IF p.ret THEN [pending |-> p.pending, likes |-> lk, out |-> "ReservedPending"]
           ELSE [pending |-> p.pending,
                 likes |-> [lk EXCEPT ![track_id] = Some(like_value)],
                 out |-> "OK"]

\* LikeAPI.post
LikeAPI(track_id, like_value) ==
  /\ txn = None
  /\ LET r == like_api(World, likes, track_id, like_value)
     IN  /\ pending' = r.pending
         /\ likes' = r.likes
         /\ last' = TrackDone("like", track_id, r.out)
  /\ UNCHANGED <<catalog, store, clock, txn, procs>>

\* The channel tags an edit sets.
EditChannels == {<<"house">>, <<"trance", "house">>}

\* The inputs of the requests on a track: every track has its row, each
\* channel has a document with an empty playlist, anything is on air on the
\* first channel, and the pending-removal record is missing, null or any
\* list of different ids. Tracks are queued on the first channel.
TrackInit ==
  /\ catalog = [t \in TrackIds |-> Some(Row(InitialChannels(t), None, 0))]
  /\ \E np \in NowPlayingEntries :
       store = [c \in SERVICE_CHANNEL |->
                  Some([now_playing |-> IF c = "trance" THEN np ELSE None,
                        playlist |-> Some(<<>>)])]
  /\ pending \in {None, Some([list |-> None])}
                 \cup {Some([list |-> Some(l)]) :
                         l \in {b \in BoundedLists(TrackIds, MaxPending) :
                                  \A i, j \in 1..Len(b) : i # j => b[i] # b[j]}}
  /\ clock = 200
  /\ txn = None
  /\ last = NoRequest
  /\ procs = [p \in Procs |-> Idle]
  /\ likes = [t \in TrackIds |-> None]

TrackNext ==
  \/ \E t \in TrackIds : TrackAPIGet(t)
  \/ \E t \in TrackIds, cl \in EditChannels : TrackAPIPut(t, cl)
  \/ \E t \in TrackIds, cl \in EditChannels : UpdateTrackFormSave(t, cl)
  \/ \E t \in TrackIds : TrackAPIDelete(t)
  \/ \E t \in TrackIds, v \in LikeValues : LikeAPI(t, v)
  \/ \E t \in TrackIds, i \in Indices :
       PlaylistLen(store, "trance") < MaxLen /\ QueueINAPI("trance", t, i)

TrackSpec == TrackInit /\ [][TrackNext]_vars

\* ------------------------------------------------------------- claims
\* The channel's document says the track is on air.
NowPlayingOn(st, channel, track_id) ==
  /\ st[channel] # None
  /\ Val(st[channel]).now_playing # None
  /\ Val(Val(st[channel]).now_playing).id = track_id

\* The track is on air on one of the channels it is tagged with.
PlayingOnOwnChannel(track_id) ==
  /\ catalog[track_id] # None
  /\ \E c \in Range(Val(catalog[track_id]).channel) : NowPlayingOn(store, c, track_id)

\* The step is the request op on the track.
TrackRequest(op, track_id) == last'.op = op /\ last'.track = track_id

\* C1: no track's row is removed from the catalog while the track is the
\* now_playing entry of any channel, whichever request removes it.
C1_NoDeleteWhilePlaying ==
  [][\A t \in TrackIds :
       (catalog[t] # None /\ catalog'[t] = None)
         => \A c \in SERVICE_CHANNEL : ~NowPlayingOn(store, c, t)]_vars

\* C2: a delete request on a track that is on air on one of its channels and
\* is not in the pending-removal list appends its id to the list, ends
\* Reserved and keeps the row, whether the record was missing, held null or
\* held a list.
C2_ReserveWhenPlaying ==
  [][\A t \in TrackIds :
       (TrackRequest("delete", t) /\ PlayingOnOwnChannel(t) /\ t \notin PendingIds(pending))
         => /\ last'.out = "Reserved"
            /\ pending' = Some([list |-> Some(Append(PendingList(pending), t))])
            /\ catalog'[t] # None]_vars

\* A delete request was reserved behind an id already in the list.
C2_Witness ==
  /\ last.op = "delete" /\ last.out = "Reserved"
  /\ Len(PendingList(pending)) = 2
  /\ PendingList(pending)[2] = last.track
  /\ catalog[last.track] # None

\* C3: a delete request on a track whose id is in the pending-removal list
\* ends AlreadyReserved and changes neither the list, nor a channel's
\* document, nor the catalog.
C3_AlreadyReserved ==
  [][\A t \in TrackIds :
       (TrackRequest("delete", t) /\ catalog[t] # None /\ t \in PendingIds(pending))
         => /\ last'.out = "AlreadyReserved"
            /\ pending' = pending
            /\ store' = store
            /\ catalog' = catalog]_vars

\* A delete request was turned down for a track that is in the list.
C3_Witness ==
  /\ last.op = "delete" /\ last.out = "AlreadyReserved"
  /\ last.track \in PendingIds(pending)
  /\ catalog[last.track] # None

\* The step is the call of remove_pending_track that opens an on-stop callback.
ReconcileStep == txn = None /\ last'.op \in {"reconcile", "on_stop"}

C6_FirstReadReturnsDefault ==
  [][\A c \in SERVICE_CHANNEL :
       (last'.op = "get" /\ last'.channel = c)
         => IF store[c] = None
            THEN last'.ret = Some([now_playing |-> None, playlist |-> Some(<<>>)])
            ELSE store' = store]_vars

\* The ids the selector is to leave out on a channel: the now_playing id and
\* the id of the playlist's last entry.
ExcludeIds(channel) ==
  IF store[channel] = None THEN {}
  ELSE LET doc == Val(store[channel])
       IN  (IF doc.now_playing # None THEN {Val(doc.now_playing).id} ELSE {})
           \cup (IF PyTruthy(doc.playlist)
                 THEN {Val(doc.playlist)[Len(Val(doc.playlist))].id} ELSE {})

TaggedWith(track_id, channel) ==
  catalog[track_id] # None /\ channel \in Range(Val(catalog[track_id]).channel)

\* Last played more than 3 hours ago, or never played and uploaded within
\* the last 10 minutes.
InWindow(track_id) ==
  LET row == Val(catalog[track_id])
  IN  \/ row.last_played_at # None /\ Val(row.last_played_at) < clock - delta_3hour
      \/ row.last_played_at = None /\ row.uploaded_at > clock - delta_10minute

\* The tracks of the channel that are not left out.
ChannelTracks(channel) ==
  {t \in TrackIds : TaggedWith(t, channel) /\ t \notin ExcludeIds(channel)}

Selected == last.op = "select" /\ last.out = "OK"

\* C7: get_random_track never returns the track that is the channel's now_playing.
C7_NeverNowPlaying ==
  Selected => \A i \in 1..Len(last.ret) : ~NowPlayingOn(store, last.channel, last.ret[i])

\* C8: every track get_random_track returns is tagged with the channel.
C8_OnlyChannelTracks ==
  Selected => \A i \in 1..Len(last.ret) : TaggedWith(last.ret[i], last.channel)

\* C9: when a track of the channel that is not left out is inside the window,
\* every track returned is inside the window.
C9_WindowHonoured ==
  (Selected /\ \E t \in ChannelTracks(last.channel) : InWindow(t))
    => \A i \in 1..Len(last.ret) : InWindow(last.ret[i])

\* C10: when no track of the channel is inside the window but the channel has
\* a track that is not left out, a call for n >= 1 tracks returns between 1
\* and n tracks.
C10_FallbackReturns ==
  (/\ last.op = "select" /\ last.samples >= 1
   /\ \A t \in TrackIds : TaggedWith(t, last.channel) => ~InWindow(t)
   /\ ChannelTracks(last.channel) # {})
    => last.out = "OK" /\ Len(last.ret) >= 1 /\ Len(last.ret) <= last.samples

\* The candidate set of the selector on a channel: the channel's tracks that
\* are not left out and are inside the window, or, when there is none, all
\* the channel's tracks that are not left out.
Candidates(channel) ==
  LET in_window == {t \in ChannelTracks(channel) : InWindow(t)}
  IN  IF in_window # {} THEN in_window ELSE ChannelTracks(channel)

Min(a, b) == IF a < b THEN a ELSE b

\* C11: get_random_track(channel, n) returns exactly min(n, |candidates|)
\* tracks, each of them a candidate and no two of them the same.
C11_ExactSample ==
  Selected =>
    /\ Len(last.ret) = Min(last.samples, Cardinality(Candidates(last.channel)))
    /\ \A i \in 1..Len(last.ret) : last.ret[i] \in Candidates(last.channel)
    /\ \A i, j \in 1..Len(last.ret) : i # j => last.ret[i] # last.ret[j]

\* The playlist a channel's document holds (None: no document or null).
PlaylistOf(st, channel) ==
  IF st[channel] = None THEN None ELSE Val(st[channel]).playlist

\* The sequence without its k-th entry (k counted from 1).
Without(s, k) == [j \in 1..(Len(s) - 1) |-> IF j < k THEN s[j] ELSE s[j + 1]]

\* The step is the queue request op on the channel, whose document holds a list.
QueueRequest(op, channel) ==
  /\ last'.op = op /\ last'.channel = channel
  /\ PlaylistOf(store, channel) # None

\* C12: a queue-in of a track that has a row and is not reserved, at an index
\* i with 0 <= i <= len, leaves the channel's playlist one entry longer, the
\* track's entry at position i, the entries before i where they were and the
\* entries from i on one place to the right.
C12_EnqueueAt ==
  [][\A c \in SERVICE_CHANNEL, t \in TrackIds :
       (/\ QueueRequest("queue_in", c) /\ last'.track = t
        /\ catalog[t] # None /\ t \notin PendingIds(pending)
        /\ last'.index[1] <= Len(Val(PlaylistOf(store, c))))
         => LET p == Val(PlaylistOf(store, c))
                i == last'.index[1]
            IN  /\ PlaylistOf(store', c) # None
                /\ LET q == Val(PlaylistOf(store', c))
                   IN  /\ Len(q) = Len(p) + 1
                       /\ q[i + 1] = Entry(t)
                       /\ \A k \in 1..i : q[k] = p[k]
                       /\ \A k \in (i + 1)..Len(p) : q[k + 1] = p[k]]_vars

\* An entry was queued in between two others.
C12_Witness ==
  /\ last.op = "queue_in" /\ last.index = <<1>> /\ last.notify # None
  /\ PlaylistOf(store, last.channel) # None
  /\ LET q == Val(PlaylistOf(store, last.channel))
     IN  Len(q) = 3 /\ q[2] = Entry(last.track) /\ q[1] # q[2] /\ q[3] # q[2]

\* C13: a move with both indices inside the playlist leaves a playlist of
\* the same length; the entry that was at from is at to, and without it the
\* playlist is what the old one is without its entry at from.
C13_Move ==
  [][\A c \in SERVICE_CHANNEL :
       (/\ QueueRequest("queue_move", c)
        /\ last'.index[1] < Len(Val(PlaylistOf(store, c)))
        /\ last'.index[2] < Len(Val(PlaylistOf(store, c))))
         => LET p == Val(PlaylistOf(store, c))
                from == last'.index[1]
                to == last'.index[2]
            IN  /\ PlaylistOf(store', c) # None
                /\ LET q == Val(PlaylistOf(store', c))
                   IN  /\ Len(q) = Len(p)
                       /\ q[to + 1] = p[from + 1]
                       /\ Without(q, to + 1) = Without(p, from + 1)]_vars

\* The last of three entries was moved to the front, past two different entries.
C13_Witness ==
  /\ last.op = "queue_move" /\ last.index = <<2, 0>> /\ last.notify # None
  /\ PlaylistOf(store, last.channel) # None
  /\ LET q == Val(PlaylistOf(store, last.channel))
     IN  Len(q) = 3 /\ q[2] # q[3]

\* C14: a move whose from index is outside the playlist, or whose to index
\* is outside the playlist shortened by one entry, ends in an index error.
C14_MoveOutOfBounds ==
  [][\A c \in SERVICE_CHANNEL :
       (/\ QueueRequest("queue_move", c)
        /\ \/ last'.index[1] >= Len(Val(PlaylistOf(store, c)))
           \/ last'.index[2] >= Len(Val(PlaylistOf(store, c))))
         => last'.out = "IndexError"]_vars

\* C15: a queue-out at an index i with 0 <= i < len leaves the playlist
\* without its entry at i, the other entries in their order.
C15_RemoveAt ==
  [][\A c \in SERVICE_CHANNEL :
       (/\ QueueRequest("queue_out", c)
        /\ last'.index[1] < Len(Val(PlaylistOf(store, c))))
         => /\ PlaylistOf(store', c) # None
            /\ LET p == Val(PlaylistOf(store, c))
                   q == Val(PlaylistOf(store', c))
               IN  /\ Len(q) = Len(p) - 1
                   /\ \A k \in 1..Len(q) :
                        q[k] = IF k <= last'.index[1] THEN p[k] ELSE p[k + 1]]_vars

\* The middle one of three entries was taken out, the two left differ.
C15_Witness ==
  /\ last.op = "queue_out" /\ last.index = <<1>> /\ last.notify # None
  /\ PlaylistOf(store, last.channel) # None
  /\ LET q == Val(PlaylistOf(store, last.channel))
     IN  Len(q) = 2 /\ q[1] # q[2]

\* C16: a request that changes the playlist a channel's document holds calls
\* the notifier for that channel: unqueue with the index for a queue-out,
\* setlist with the playlist now held for every other request.
C16_MutationNotified ==
  [][\A c \in SERVICE_CHANNEL :
       PlaylistOf(store', c) # PlaylistOf(store, c)
         => /\ last'.notify # None
            /\ Val(last'.notify).target = c
            /\ IF last'.op = "queue_out"
               THEN /\ Val(last'.notify).command = "unqueue"
                    /\ Val(last'.notify).data = [index_at |-> last'.index[1]]
               ELSE /\ Val(last'.notify).command = "setlist"
                    /\ Some(Val(last'.notify).data) = PlaylistOf(store', c)]_vars

QueueOps == {"queue_in", "queue_move", "queue_out"}

\* C17: when a queue-in, move or queue-out has called the notifier, the
\* channel's document holds the changed playlist (the one sent with
\* setlist, the old one without the entry at index_at for unqueue), whether
\* the message arrived, was lost or the call raised.
C17_PersistedWhateverNotifier ==
  [][\A c \in SERVICE_CHANNEL :
       (/\ last'.op \in QueueOps /\ last'.channel = c /\ last'.notify # None)
         => /\ PlaylistOf(store', c) # None
            /\ IF Val(last'.notify).command = "setlist"
               THEN Val(PlaylistOf(store', c)) = Val(last'.notify).data
               ELSE Val(PlaylistOf(store', c))
                      = Without(Val(PlaylistOf(store, c)), Val(last'.notify).data.index_at + 1)]_vars

\* A move whose notifier call raised: the moved playlist is in the store.
C17_Witness ==
  /\ last.op = "queue_move" /\ last.dispatch = "raised" /\ last.index = <<0, 1>>
  /\ last.notify # None
  /\ PlaylistOf(store, last.channel) = Some(Val(last.notify).data)
  /\ Len(Val(last.notify).data) = 2
  /\ Val(last.notify).data[1] # Val(last.notify).data[2]

\* The ids of the entries of the playlist a channel's document holds.
QueuedIds(st, channel) ==
  IF PlaylistOf(st, channel) = None THEN {}
  ELSE {Val(PlaylistOf(st, channel))[k].id : k \in 1..Len(Val(PlaylistOf(st, channel)))}

\* C18: when a delete request has deleted a track that was no channel's
\* now_playing, no channel's playlist holds an entry of the track, also on
\* the channels the track is not tagged with.
C18_DeletedNowhereQueued ==
  [][\A t \in TrackIds :
       (/\ TrackRequest("delete", t) /\ last'.out = "Deleted"
        /\ \A c \in SERVICE_CHANNEL : ~NowPlayingOn(store, c, t))
         => \A c \in SERVICE_CHANNEL : t \notin QueuedIds(store', c)]_vars

GuardedOps == {"view", "put", "form_save", "delete", "like", "queue_in"}

C20_ReconcileIdempotent ==
  [][(ReconcileStep /\ pending # None /\ PendingList(pending) = <<>>)
       => /\ last'.op = "reconcile"
          /\ catalog' = catalog /\ store' = store /\ pending' = pending
          /\ LET again == remove_pending_track([catalog |-> catalog', store |-> store',
                                                pending |-> pending'])
             IN  /\ ~again.err
                 /\ again.w = [catalog |-> catalog, store |-> store, pending |-> pending]]_vars

\* remove_pending_track has run on a record holding null, with rows in the
\* catalog and a playlist in the store that a delete would have changed.
C20_Witness ==
  /\ last.op = "reconcile" /\ txn # None
  /\ pending = Some([list |-> None])
  /\ \E t \in TrackIds :
       /\ catalog[t] # None
       /\ \E c \in SERVICE_CHANNEL : t \in QueuedIds(store, c)

\* C21: the write that ends a playlist mutation replaces the channel's
\* playlist by the list the writer edited, whatever another request wrote
\* since the writer read it: of two mutations running side by side, one's
\* entry can be gone when both are over.
C21_LastWriteWins ==
  [][\A p \in Mutators :
       (procs[p].pc = "set_write" /\ procs'[p].pc = "done")
         => PlaylistOf(store', procs[p].channels[1]) = Some(procs[p].playlist)]_vars

\* Both mutations of one channel have answered OK, and the entry one of them
\* added is not in the channel's playlist.
C21_Witness ==
  /\ \A p \in Mutators : procs[p].pc = "done" /\ procs[p].out = "OK"
  /\ procs["m1"].channels = procs["m2"].channels
  /\ procs["m1"].track # procs["m2"].track
  /\ procs["m1"].track \notin QueuedIds(store, procs["m1"].channels[1])
  /\ procs["m2"].track \in QueuedIds(store, procs["m1"].channels[1])

\* C22: a track id that is in the pending-removal list is at some later time
\* without a row in the catalog, when on-stop callbacks keep coming and
\* every request runs to its end.
C22_EventuallyDeleted ==
  \A t \in TrackIds : (t \in PendingIds(pending)) ~> (catalog[t] = None)

\* C23: once a delete request has answered Reserved for a track, the
\* track's id is in the pending-removal list or the track has no row.
C23_ReservationKept ==
  \A p \in Deleters :
    (procs[p].pc = "done" /\ procs[p].out = "Reserved")
      => \/ procs[p].track \in PendingIds(pending)
         \/ catalog[procs[p].track] = None

\* C24: a delete request that ends Reserved or AlreadyReserved leaves every
\* channel's playlist as it was.
C24_ReservedKeepsPlaylists ==
  [][\A t \in TrackIds :
       (TrackRequest("delete", t) /\ last'.out \in {"Reserved", "AlreadyReserved"})
         => \A c \in SERVICE_CHANNEL : PlaylistOf(store', c) = PlaylistOf(store, c)]_vars

\* The entries of a playlist whose id is not track_id, in their order.
RECURSIVE OtherEntries(_, _)
OtherEntries(playlist, track_id) ==
  IF playlist = <<>> THEN <<>>
  ELSE IF playlist[1].id = track_id THEN OtherEntries(Tail(playlist), track_id)
       ELSE <<playlist[1]>> \o OtherEntries(Tail(playlist), track_id)

\* C25: when a delete request has deleted a track, the playlist of every
\* channel the track was tagged with is the old playlist without the
\* track's entries, wherever and however often they occurred.
C25_DeletedFiltered ==
  [][\A t \in TrackIds :
       (TrackRequest("delete", t) /\ last'.out = "Deleted")
         => \A c \in Range(Val(catalog[t]).channel) :
              PlaylistOf(store, c) # None
                => PlaylistOf(store', c) = Some(OtherEntries(Val(PlaylistOf(store, c)), t))]_vars

\* How often the track has an entry in the playlist a channel's document holds.
Occurrences(st, channel, track_id) ==
  IF PlaylistOf(st, channel) = None THEN 0
  ELSE Cardinality({k \in 1..Len(Val(PlaylistOf(st, channel))) :
                      Val(PlaylistOf(st, channel))[k].id = track_id})

\* C26: no request adds to a channel's playlist an entry of a track whose id
\* is in the pending-removal list, nor sends such an entry in a setlist.
C26_NoReservedQueued ==
  [][\A t \in PendingIds(pending') :
       /\ \A c \in SERVICE_CHANNEL : Occurrences(store', c, t) <= Occurrences(store, c, t)
       /\ (last'.notify # None /\ Val(last'.notify).command = "setlist")
            => \A k \in 1..Len(Val(last'.notify).data) : Val(last'.notify).data[k].id # t]_vars

\* C28: when a request has sent a setlist for a channel, the data sent is
\* the playlist the channel's document holds.
C28_SetlistIsPersisted ==
  [][(last'.notify # None /\ Val(last'.notify).command = "setlist")
       => PlaylistOf(store', Val(last'.notify).target) = Some(Val(last'.notify).data)]_vars

\* C27: a move whose from index, or a queue-out whose index, is at or past
\* the end of the playlist ends in an index error, leaves every document as
\* it was and calls no notifier.
C27_OutOfRangeFails ==
  [][\A c \in SERVICE_CHANNEL :
       (/\ last'.op \in {"queue_move", "queue_out"} /\ last'.channel = c
        /\ PlaylistOf(store, c) # None
        /\ last'.index[1] >= Len(Val(PlaylistOf(store, c))))
         => /\ last'.out = "IndexError"
            /\ store' = store
            /\ last'.notify = None /\ last'.dispatch = "none"]_vars

\* A move from the first index past three entries was refused.
C27_Witness ==
  /\ last.op = "queue_move" /\ last.out = "IndexError" /\ last.index[1] = 3
  /\ last.notify = None
  /\ PlaylistOf(store, last.channel) # None
  /\ Len(Val(PlaylistOf(store, last.channel))) = 3

\* C29: the on-startup callback on a channel whose document holds a playlist
\* with entries answers that playlist and writes nothing; on a channel with
\* no document, a null playlist or an empty one it answers a list
\* get_random_track(channel, NUM_SAMPLES) can return and the channel's
\* document holds that list, the other documents being as they were.
C29_StartupSeeds ==
  [][\A c \in SERVICE_CHANNEL :
       (last'.op = "on_startup" /\ last'.channel = c)
         => IF PlaylistOf(store, c) # None /\ Val(PlaylistOf(store, c)) # <<>>
            THEN last'.ret = Val(PlaylistOf(store, c)) /\ store' = store
            ELSE /\ last'.out = "OK"
                 /\ PlaylistOf(store', c) = Some(last'.ret)
                 /\ \E s \in get_random_track(get_redis_data(store, c).store, catalog, c,
                                              NUM_SAMPLES, clock).results :
                      last'.ret = Entries(s)
                 /\ \A d \in SERVICE_CHANNEL \ {c} : store'[d] = store[d]]_vars

\* An on-startup callback answered a list with entries, which the channel's
\* document holds, while the other channel has no document.
C29_Witness ==
  /\ last.op = "on_startup" /\ last.ret # <<>>
  /\ PlaylistOf(store, last.channel) = Some(last.ret)
  /\ \E d \in SERVICE_CHANNEL \ {last.channel} : store[d] = None

\* C30: the second half of an on-stop callback, after remove_pending_track,
\* answers OK; when it selected a track the channel's playlist is the one
\* held before (empty for no document or a null playlist) with that entry
\* appended, otherwise the playlist is the one held before.
C30_OnStopAppends ==
  [][txn # None
       => LET c == Val(txn).channel
              before == IF PlaylistOf(store, c) = None THEN <<>>
                        ELSE Val(PlaylistOf(store, c))
          IN  /\ last'.out = "OK"
              /\ IF last'.ret = <<>>
                 THEN PlaylistOf(store', c) = PlaylistOf(store, c)
                 ELSE PlaylistOf(store', c) = Some(before \o last'.ret)]_vars

\* C5: a track id appears at most once in the pending-removal list, however
\* the steps of concurrent delete requests and reconcile passes interleave.
C5_NoDuplicateIds ==
  \A i, j \in 1..Len(PendingList(pending)) :
    i # j => PendingList(pending)[i] # PendingList(pending)[j]

=============================================================================
